---- MODULE Spec2Model ----
(***************************************************************************)
(* Model of the treemap engine of src/tree_maps.py: the Category tree,     *)
(* the recursive rectangle partitioning (compute_grid), the cutoff/merge   *)
(* pass and recursive rendering (visualize_main_map) and the construction  *)
(* of a VisConfig.                                                         *)
(*                                                                         *)
(* Category objects live in a heap (a sequence of records addressed by     *)
(* their index); a reference is an index, None is 0.  Sizes are row counts *)
(* (Category.__init__ without value_name), hence integers.  Names are      *)
(* integers: child k of a node is named k, a merged "Other ..." node is    *)
(* named OthersName.                                                       *)
(***************************************************************************)
EXTENDS Integers, Sequences, FiniteSets, TLC

VARIABLES heap,      \* the Category objects: Seq of node records
          call,      \* the pending compute_grid invocation (its arguments)
          stack,     \* call stack of visualize_main_map frames
          rendered,  \* the visualize_main_map calls made so far, in order
          cfg        \* a VisConfig: constructor arguments, then the object

vars == <<heap, call, stack, rendered, cfg>>

(***************************************************************************)
(* Bounds of the model.                                                    *)
(***************************************************************************)
MaxKids == 3      \* children per node
MaxRows == 6      \* rows of the root's data
MaxDim == 5       \* width and height of the rectangle of the layout specification
MaxCanvas == 4    \* canvas width and height of the rendering specification
MaxPalette == 3   \* palette length / n_categories of a VisConfig

None == 0

Range(s) == {s[i] : i \in DOMAIN s}

RECURSIVE SumSeq(_)
SumSeq(s) == IF s = <<>> THEN 0 ELSE Head(s) + SumSeq(Tail(s))

RECURSIVE SeqsUpTo(_, _)
SeqsUpTo(S, n) ==
    IF n = 0 THEN {<<>>}
    ELSE LET shorter == SeqsUpTo(S, n - 1)
         IN  shorter \cup {Append(s, x) : s \in {t \in shorter : Len(t) = n - 1}, x \in S}

EmptyDict == [n \in {} |-> 0]

(***************************************************************************)
(* Category objects.                                                       *)
(***************************************************************************)
OthersName == 0

\* Category.__init__ with the default subcategories: the size is the number
\* of rows of the data, grids starts as the empty dict.
Category(name, rows, supcategory, is_root, is_others) ==
    [name |-> name, size |-> rows, supcategory |-> supcategory,
     subcategories |-> <<>>, is_root |-> is_root, is_others |-> is_others,
     grids |-> EmptyDict]

\* A fraction num/den of two Python ints as the pair <<num, den>>, den > 0.
\* The float quotient of two small ints is correctly rounded, and distinct
\* fractions with small denominators round to distinct floats, so floats
\* obtained this way compare as the fractions do.
FracGT(a, b) == a[1] * b[2] > b[1] * a[2]
FracLE(a, b) == a[1] * b[2] <= b[1] * a[2]

\* Category.proportion_in_supcategory: self.size / self.supcategory.size
proportion_in_supcategory(h, c) == <<h[c].size, h[h[c].supcategory].size>>

\* list.sort / sorted with reverse=True: stable, descending by key, where
\* key[i] is the key of s[i] as a fraction.
SortedDesc(s, key) ==
    LET pos == [i \in DOMAIN s |->
                   Cardinality({j \in DOMAIN s :
                       FracGT(key[j], key[i]) \/ (j <= i /\ ~FracGT(key[i], key[j]))})]
    IN  [k \in DOMAIN s |-> s[CHOOSE i \in DOMAIN s : pos[i] = k]]

\* Category.subcategories_in_descending_size
subcategories_in_descending_size(h, self) ==
    LET subs == h[self].subcategories
    IN  SortedDesc(subs, [i \in DOMAIN subs |-> <<h[subs[i]].size, 1>>])

(***************************************************************************)
(* Float arithmetic of the layout, on integers.                            *)
(***************************************************************************)
RECURSIVE Pow2(_)
Pow2(n) == IF n = 0 THEN 1 ELSE 2 * Pow2(n - 1)

\* 2^e mod t
RECURSIVE Pow2Mod(_, _)
Pow2Mod(e, t) == IF e = 0 THEN 1 % t ELSE (2 * Pow2Mod(e - 1, t)) % t

\* least a >= 0 with s * 2^a >= t   (1 <= s <= t)
RECURSIVE ScaleExp(_, _)
ScaleExp(s, t) == IF s >= t THEN 0 ELSE 1 + ScaleExp(2 * s, t)

\* floor(log2(k)), k >= 1
RECURSIVE Log2(_)
Log2(k) == IF k <= 1 THEN 0 ELSE 1 + Log2(k \div 2)

MantissaBits == 52

\* int(a / b) for ints a >= 0, b > 0: one correctly rounded division of two
\* exactly represented ints, truncated; equal to the integer quotient.
IntOfQuotient(a, b) == a \div b

\* IntOfProduct with the product rounded to the nearest pixel, not truncated
IntOfProduct_rounded(height, size, total) ==
    (2 * height * size + total) \div (2 * total)

\* int(height * (size / total)) in IEEE-754 doubles, 1 <= size <= total,
\* height >= 0.  The quotient size/total is rounded to 53 bits first; when
\* height*size/total is an integer k and the quotient was rounded down far
\* enough, the product rounds to the double below k and int() yields k - 1
\* (e.g. int(55 * (3 / 11)) = 14).
IntOfProduct(height, size, total) ==
    IF height = 0 THEN 0
    ELSE IF (height * size) % total # 0 THEN (height * size) \div total
    ELSE LET k == (height * size) \div total
             a == ScaleExp(size, total)
             r == (size * Pow2Mod(MantissaBits + a, total)) % total
             p == Log2(k)
             z == IF k = Pow2(p) THEN 1 ELSE 0
         IN  IF r = 0 \/ 2 * r > total THEN k
             ELSE IF height * r * Pow2(1 + z) > total * Pow2(a + p) THEN k - 1
             ELSE k

(***************************************************************************)
(* GridLayoutEngine: Category.compute_simple_column_grid, compute_grid.    *)
(***************************************************************************)
\* A grid entry: {"ul": ul, "width": width, "height": height}
Grid(ul, width, height) == [ul |-> ul, width |-> width, height |-> height]

\* compute_simple_column_grid without line 201: current_ul is never advanced
compute_simple_column_grid_fixed_ul(h, grids, width, height, categories, ul) ==
    LET total_column_size ==
            SumSeq([i \in DOMAIN categories |-> h[categories[i]].size])
    IN  [nm \in {h[c].name : c \in Range(categories)} |->
            LET c == CHOOSE c \in Range(categories) : h[c].name = nm
            IN  Grid(ul, width, IntOfProduct(height, h[c].size, total_column_size))]
        @@ grids

\* compute_simple_column_grid with the heights taken from the proportion in
\* the supcategory instead of the proportion in the column
compute_simple_column_grid_of_parent(h, grids, width, height, categories, ul) ==
    LET height_used == [i \in DOMAIN categories |->
                           IntOfProduct(height, h[categories[i]].size,
                                        h[h[categories[i]].supcategory].size)]
    IN  [nm \in {h[c].name : c \in Range(categories)} |->
            LET i == CHOOSE i \in DOMAIN categories : h[categories[i]].name = nm
            IN  Grid(<<ul[1], ul[2] + SumSeq(SubSeq(height_used, 1, i - 1))>>,
                     width, height_used[i])]
        @@ grids

\* compute_simple_column_grid writing only the names that have no entry yet
\* (setdefault in place of the assignment of line 202)
compute_simple_column_grid_setdefault(h, grids, width, height, categories, ul) ==
    LET cats == SortedDesc(categories,
                    [i \in DOMAIN categories |->
                        proportion_in_supcategory(h, categories[i])])
        total_column_size == SumSeq([i \in DOMAIN cats |-> h[cats[i]].size])
        height_used == [i \in DOMAIN cats |->
                           IntOfProduct(height, h[cats[i]].size, total_column_size)]
        current_ul == [i \in DOMAIN cats |->
                          <<ul[1], ul[2] + SumSeq(SubSeq(height_used, 1, i - 1))>>]
        names == {h[c].name : c \in Range(cats)}
        first == [nm \in names |->
                     CHOOSE i \in DOMAIN cats :
                         /\ h[cats[i]].name = nm
                         /\ \A j \in DOMAIN cats : h[cats[j]].name = nm => i <= j]
        written == [nm \in names |->
                       Grid(current_ul[first[nm]], width, height_used[first[nm]])]
    IN  grids @@ written

\* compute_simple_column_grid: the value of self.grids after the call, from
\* its value grids before it.  categories is a list of Category references.
compute_simple_column_grid(h, grids, width, height, categories, ul) ==
    LET cats == SortedDesc(categories,
                    [i \in DOMAIN categories |->
                        proportion_in_supcategory(h, categories[i])])
        total_column_size == SumSeq([i \in DOMAIN cats |-> h[cats[i]].size])
        height_used == [i \in DOMAIN cats |->
                           IntOfProduct(height, h[cats[i]].size, total_column_size)]
        current_ul == [i \in DOMAIN cats |->
                          <<ul[1], ul[2] + SumSeq(SubSeq(height_used, 1, i - 1))>>]
        names == {h[c].name : c \in Range(cats)}
        last == [nm \in names |->
                    CHOOSE i \in DOMAIN cats :
                        /\ h[cats[i]].name = nm
                        /\ \A j \in DOMAIN cats : h[cats[j]].name = nm => j <= i]
        written == [nm \in names |->
                       Grid(current_ul[last[nm]], width, height_used[last[nm]])]
    IN  written @@ grids

\* The while loop of compute_grid (lines 226-230 and 239-243): main is the
\* extent being split (width, resp. height), cross the other one; sz are the
\* sizes in descending order, id0 the index the call started at, first the
\* fraction first_category_height (resp. first_category_width).
RECURSIVE GrowGroup(_, _, _, _, _, _, _, _)
GrowGroup(sz, id0, total, main, cross, id, required, first) ==
    IF required * first[2] < first[1] /\ id < Len(sz) - 1
    THEN LET next == id + 1
             group == SumSeq(SubSeq(sz, id0 + 1, next + 1))
         IN  GrowGroup(sz, id0, total, main, cross, next,
                       IntOfQuotient(main * group, total),
                       <<cross * sz[id0 + 1], group>>)
    ELSE [current_category_id |-> id, required |-> required]

\* compute_grid_call whose recursive call starts at the last category of the
\* group (current_category_id instead of current_category_id+1, lines 235, 248)
compute_grid_call_from_group_end(h, self, grids, width, height, ul, current_category_id) ==
    LET desc == subcategories_in_descending_size(h, self)
        n == Len(h[self].subcategories)
        sz == [i \in DOMAIN desc |-> h[desc[i]].size]
        current_category == desc[current_category_id + 1]
        total_size_remaining == SumSeq(SubSeq(sz, current_category_id + 1, n))
        stop == [grids |-> grids, gridded_categories |-> <<current_category>>,
                 recurse |-> FALSE, width |-> width,
                 height |-> height, ul |-> ul,
                 current_category_id |-> current_category_id]
    IN  IF current_category_id = n - 1
        THEN [stop EXCEPT !.grids =
                  (h[current_category].name :> Grid(ul, width, height)) @@ grids]
        ELSE IF width > height
        THEN LET g == GrowGroup(sz, current_category_id, total_size_remaining,
                          width, height, current_category_id,
                          IntOfQuotient(width * sz[current_category_id + 1],
                                        total_size_remaining),
                          <<height, 1>>)
                 current_width_required == g.required
                 gridded_categories ==
                     SubSeq(desc, current_category_id + 1, g.current_category_id + 1)
                 written == compute_simple_column_grid(h, grids,
                                current_width_required, height, gridded_categories, ul)
             IN  IF g.current_category_id # n - 1
                 THEN [grids |-> written, gridded_categories |-> gridded_categories,
                       recurse |-> TRUE,
                       width |-> width - current_width_required, height |-> height,
                       ul |-> <<ul[1] + current_width_required, ul[2]>>,
                       current_category_id |-> g.current_category_id]
                 ELSE [stop EXCEPT !.grids = written,
                                  !.gridded_categories = gridded_categories]
        ELSE LET g == GrowGroup(sz, current_category_id, total_size_remaining,
                          height, width, current_category_id,
                          IntOfQuotient(height * sz[current_category_id + 1],
                                        total_size_remaining),
                          <<width, 1>>)
                 current_height_required == g.required
                 gridded_categories ==
                     SubSeq(desc, current_category_id + 1, g.current_category_id + 1)
                 written == compute_simple_column_grid(h, grids,
                                width, current_height_required, gridded_categories, ul)
             IN  IF g.current_category_id # n - 1
                 THEN [grids |-> written, gridded_categories |-> gridded_categories,
                       recurse |-> TRUE,
                       width |-> width, height |-> height - current_height_required,
                       ul |-> <<ul[1], current_height_required + ul[2]>>,
                       current_category_id |-> g.current_category_id]
                 ELSE [stop EXCEPT !.grids = written,
                                  !.gridded_categories = gridded_categories]

\* One invocation of compute_grid up to its recursive call: the grids of self
\* after it, the categories it has assigned an entry to, whether it recurses,
\* and the arguments of the recursive call.
compute_grid_call(h, self, grids, width, height, ul, current_category_id) ==
    LET desc == subcategories_in_descending_size(h, self)
        n == Len(h[self].subcategories)
        sz == [i \in DOMAIN desc |-> h[desc[i]].size]
        current_category == desc[current_category_id + 1]
        total_size_remaining == SumSeq(SubSeq(sz, current_category_id + 1, n))
        stop == [grids |-> grids, gridded_categories |-> <<current_category>>,
                 recurse |-> FALSE, width |-> width,
                 height |-> height, ul |-> ul,
                 current_category_id |-> current_category_id]
    IN  IF current_category_id = n - 1
        THEN [stop EXCEPT !.grids =
                  (h[current_category].name :> Grid(ul, width, height)) @@ grids]
        ELSE IF width > height
        THEN LET g == GrowGroup(sz, current_category_id, total_size_remaining,
                          width, height, current_category_id,
                          IntOfQuotient(width * sz[current_category_id + 1],
                                        total_size_remaining),
                          <<height, 1>>)
                 current_width_required == g.required
                 gridded_categories ==
                     SubSeq(desc, current_category_id + 1, g.current_category_id + 1)
                 written == compute_simple_column_grid(h, grids,
                                current_width_required, height, gridded_categories, ul)
             IN  IF g.current_category_id # n - 1
                 THEN [grids |-> written, gridded_categories |-> gridded_categories,
                       recurse |-> TRUE,
                       width |-> width - current_width_required, height |-> height,
                       ul |-> <<ul[1] + current_width_required, ul[2]>>,
                       current_category_id |-> g.current_category_id + 1]
                 ELSE [stop EXCEPT !.grids = written,
                                  !.gridded_categories = gridded_categories]
        ELSE LET g == GrowGroup(sz, current_category_id, total_size_remaining,
                          height, width, current_category_id,
                          IntOfQuotient(height * sz[current_category_id + 1],
                                        total_size_remaining),
                          <<width, 1>>)
                 current_height_required == g.required
                 gridded_categories ==
                     SubSeq(desc, current_category_id + 1, g.current_category_id + 1)
                 written == compute_simple_column_grid(h, grids,
                                width, current_height_required, gridded_categories, ul)
             IN  IF g.current_category_id # n - 1
                 THEN [grids |-> written, gridded_categories |-> gridded_categories,
                       recurse |-> TRUE,
                       width |-> width, height |-> height - current_height_required,
                       ul |-> <<ul[1], current_height_required + ul[2]>>,
                       current_category_id |-> g.current_category_id + 1]
                 ELSE [stop EXCEPT !.grids = written,
                                  !.gridded_categories = gridded_categories]

\* compute_grid with its recursion: the grids of self when the call returns.
RECURSIVE compute_grid(_, _, _, _, _, _, _)
compute_grid(h, self, grids, width, height, ul, current_category_id) ==
    LET r == compute_grid_call(h, self, grids, width, height, ul, current_category_id)
    IN  IF r.recurse
        THEN compute_grid(h, self, r.grids, r.width, r.height, r.ul,
                          r.current_category_id)
        ELSE r.grids

(***************************************************************************)
(* The tree built by generate_subcategories.                               *)
(***************************************************************************)
\* A root and one level of children: child k has name k and rows[k] rows,
\* the root holds all rows (categories_from_df groups the root's data).
\* The root is node 1, child k is node k + 1.
RootId == 1
FlatTree(rows) ==
    LET root == [Category(OthersName - 1, SumSeq(rows), None, TRUE, FALSE)
                    EXCEPT !.subcategories = [k \in DOMAIN rows |-> k + 1]]
    IN  <<root>> \o [k \in DOMAIN rows |-> Category(k, rows[k], RootId, FALSE, FALSE)]

(***************************************************************************)
(* Layout specification: one compute_grid call on a fresh tree, one        *)
(* invocation (recursion level) per step.                                  *)
(***************************************************************************)
NoCall == [pending |-> FALSE]
NoConfig == [state |-> "none"]

\* the arguments of a compute_grid call on node self; outer keeps the
\* rectangle of the outermost invocation, assigned the categories each
\* invocation made so far has executed self.grids[name] = ... for.
GridCall(self, width, height, ul) ==
    [pending |-> TRUE, self |-> self, width |-> width, height |-> height,
     ul |-> ul, current_category_id |-> 0,
     outer |-> Grid(ul, width, height), assigned |-> <<>>]

\* the row counts of the groups of a data frame of at most MaxRows rows
GridRows == {rows \in SeqsUpTo(1..MaxRows, MaxKids) :
                Len(rows) >= 1 /\ SumSeq(rows) <= MaxRows}
GridCorners == {<<0, 0>>, <<2, -1>>}
\* the 50/30/20 scenario in a 100 x 60 rectangle, in two sibling orders
ScenarioRows == {<<50, 30, 20>>, <<20, 50, 30>>}
ScenarioRect == Grid(<<0, 0>>, 100, 60)

InitGrid ==
    /\ stack = <<>>
    /\ rendered = <<>>
    /\ cfg = NoConfig
    /\ \/ \E rows \in GridRows, width \in 0..MaxDim, height \in 0..MaxDim,
             ul \in GridCorners :
             /\ heap = FlatTree(rows)
             /\ call = GridCall(RootId, width, height, ul)
       \/ \E rows \in ScenarioRows :
             /\ heap = FlatTree(rows)
             /\ call = GridCall(RootId, ScenarioRect.width, ScenarioRect.height,
                                ScenarioRect.ul)

\* def compute_grid(self, width, height, ul, current_category_id): one
\* invocation; its recursive call is the next step.
ComputeGrid ==
    /\ call.pending
    /\ LET r == compute_grid_call(heap, call.self, heap[call.self].grids,
                    call.width, call.height, call.ul, call.current_category_id)
       IN  /\ heap' = [heap EXCEPT ![call.self].grids = r.grids]
           /\ call' = [call EXCEPT !.pending = r.recurse,
                                   !.width = r.width, !.height = r.height,
                                   !.ul = r.ul,
                                   !.current_category_id = r.current_category_id,
                                   !.assigned = Append(@, r.gridded_categories)]
    /\ UNCHANGED <<stack, rendered, cfg>>

NextGrid == ComputeGrid

SpecGrid == InitGrid /\ [][NextGrid]_vars

(***************************************************************************)
(* Geometry of a finished layout.                                          *)
(***************************************************************************)
Area(g) == g.width * g.height

Inside(g, outer) ==
    /\ g.width >= 0 /\ g.height >= 0
    /\ g.ul[1] >= outer.ul[1] /\ g.ul[2] >= outer.ul[2]
    /\ g.ul[1] + g.width <= outer.ul[1] + outer.width
    /\ g.ul[2] + g.height <= outer.ul[2] + outer.height

Overlap(a, b) ==
    /\ a.ul[1] < b.ul[1] + b.width /\ b.ul[1] < a.ul[1] + a.width
    /\ a.ul[2] < b.ul[2] + b.height /\ b.ul[2] < a.ul[2] + a.height

Degenerate(g) == g.width = 0 \/ g.height = 0

\* the names of the children of node p
ChildNames(h, p) == {h[c].name : c \in Range(h[p].subcategories)}

\* sum of the areas of the grid entries of the children of p
ChildArea(h, p) ==
    LET subs == h[p].subcategories
    IN  SumSeq([i \in DOMAIN subs |-> Area(h[p].grids[h[subs[i]].name])])

GridDone == ~call.pending /\ stack = <<>> /\ heap # <<>> /\ cfg = NoConfig

\* C1: when compute_grid returns, every sibling has a rectangle, every
\* rectangle lies inside the rectangle given to the call, and no two
\* rectangles of positive area overlap.
C1_InsideAndDisjoint ==
    GridDone =>
        LET g == heap[RootId].grids
            names == ChildNames(heap, RootId)
        IN  /\ names \subseteq DOMAIN g
            /\ \A a \in names : Inside(g[a], call.outer)
            /\ \A a, b \in names :
                   (a # b /\ Area(g[a]) > 0 /\ Area(g[b]) > 0) => ~Overlap(g[a], g[b])

\* a finished layout of three siblings with a corner other than the origin,
\* all of positive area
C1_Witness ==
    /\ GridDone
    /\ Len(heap[RootId].subcategories) = 3
    /\ call.outer.ul # <<0, 0>>
    /\ \A a \in ChildNames(heap, RootId) : Area(heap[RootId].grids[a]) > 0

Slack == Area(call.outer) - ChildArea(heap, RootId)

\* C2 as stated: the child areas never exceed the rectangle and fall short of
\* it by a constant number of pixels per child (here 2: one truncation of
\* less than a pixel in each extent), whatever the width and height.
C2_SlackConstantPerChild ==
    GridDone =>
        /\ ChildArea(heap, RootId) <= Area(call.outer)
        /\ Slack <= 2 * Len(heap[RootId].subcategories)

\* C2 amended: the child areas never exceed the rectangle and fall short of
\* it by at most one row of pixels (width pixels) per child.
C2_SlackRowPerChild ==
    GridDone =>
        /\ ChildArea(heap, RootId) <= Area(call.outer)
        /\ Slack <= call.outer.width * Len(heap[RootId].subcategories)

\* a finished layout of two siblings that leaves a whole row of the
\* rectangle unassigned
C2_Witness ==
    /\ GridDone
    /\ Len(heap[RootId].subcategories) = 2
    /\ call.outer.width > 4
    /\ Slack = call.outer.width

IsScenario ==
    /\ GridDone
    /\ call.outer = ScenarioRect
    /\ [i \in DOMAIN heap[RootId].subcategories |->
           heap[heap[RootId].subcategories[i]].size] \in ScenarioRows

\* the area of the rectangle of the (only) child of the root with this size
AreaOfSize(size) ==
    LET c == CHOOSE c \in Range(heap[RootId].subcategories) : heap[c].size = size
    IN  Area(heap[RootId].grids[heap[c].name])

\* C7: sizes 50, 30, 20 in a 100 x 60 rectangle: three pairwise
\* non-overlapping rectangles covering at least 98% of the 6000 pixels, with
\* area(50) >= area(30) >= area(20).
C7_Scenario ==
    IsScenario =>
        LET g == heap[RootId].grids
            names == ChildNames(heap, RootId)
        IN  /\ Cardinality(names) = 3 /\ names \subseteq DOMAIN g
            /\ \A a, b \in names : a # b => ~Overlap(g[a], g[b])
            /\ 100 * ChildArea(heap, RootId) >= 98 * 6000
            /\ AreaOfSize(50) >= AreaOfSize(30)
            /\ AreaOfSize(30) >= AreaOfSize(20)

\* the scenario's layout, finished: areas 2960, 1760 and 1200
C7_Witness ==
    /\ IsScenario
    /\ AreaOfSize(50) = 2960 /\ AreaOfSize(30) = 1760 /\ AreaOfSize(20) = 1200

(***************************************************************************)
(* TreemapRenderer: Category.visualize_main_map, one frame per call.       *)
(***************************************************************************)
\* configs.proportion_cutoff: NoCutoff is None, otherwise a fraction
NoCutoff == <<>>

\* ColorStyle.__post_init__, line 544: the names a ColorStyle accepts
StyleNames == {"palette", "gradient", "uniform"}

\* line 484: the styles of a VisConfig constructed with styles=None
DefaultStyles == <<"palette", "gradient", "uniform">>

\* the fields of a VisConfig that visualize_main_map reads or writes
StyledConfig(width, height, proportion_cutoff, styles) ==
    [width |-> width, height |-> height, proportion_cutoff |-> proportion_cutoff,
     styles |-> styles]

\* a VisConfig constructed without a styles argument
LayoutConfig(width, height, proportion_cutoff) ==
    StyledConfig(width, height, proportion_cutoff, DefaultStyles)

\* the configuration object the caller of the outermost call holds, and
\* VisConfig.legend_margins, the list of line 466 that belongs to the class
Passed(configs) ==
    [state |-> "passed", configs |-> configs, legend_margins |-> <<>>]

\* the locals of one visualize_main_map call; color_style is the style name
\* of configs.top_level_color_style once line 118 has run
Frame(self, configs) ==
    [self |-> self, configs |-> configs, pc |-> "start", color_style |-> "",
     proportion_cutoff |-> NoCutoff, not_cutoff_categories |-> <<>>,
     cutoff_categories |-> <<>>, temp_category |-> None, i |-> 0]

\* what the log of calls keeps of a call: the node, its canvas and styles,
\* the calling node and the number of objects alive when the call was made
Rendering(h, self, configs, caller) ==
    [self |-> self, width |-> configs.width, height |-> configs.height,
     styles |-> configs.styles,
     caller |-> caller, auto |-> configs.proportion_cutoff = NoCutoff,
     objects |-> Len(h)]

\* an exception that left the outermost call
Raised(error) == [pending |-> FALSE, error |-> error]

\* VisConfig.top_level_color_style: ColorStyle(style = self.styles[0], ...),
\* the style name, or the exception of the subscript or of line 545
top_level_color_style(configs) ==
    IF configs.styles = <<>> THEN [error |-> "IndexError"]
    ELSE IF configs.styles[1] \notin StyleNames THEN [error |-> "ValueError"]
    ELSE [error |-> "", style |-> configs.styles[1]]

\* the objects an object refers to
Refs(h, x) == ({h[x].supcategory} \ {None}) \cup Range(h[x].subcategories)

RECURSIVE Reachable(_, _)
Reachable(h, S) ==
    LET T == S \cup UNION {Refs(h, x) : x \in S}
    IN  IF T = S THEN S ELSE Reachable(h, T)

\* no copy at all: the reference itself
deepcopy_alias(h, x) == [heap |-> h, ref |-> x]

\* copy.deepcopy(x): every object reachable from x is duplicated, references
\* among the duplicates follow the originals'; yields the heap with the
\* duplicates and the reference to the duplicate of x.
deepcopy(h, x) ==
    LET R == Reachable(h, {x})
        new(y) == Len(h) + Cardinality({z \in R : z <= y})
        old(k) == CHOOSE y \in R : new(y) = Len(h) + k
        dup(y) == [h[y] EXCEPT
                      !.supcategory = IF @ = None THEN None ELSE new(@),
                      !.subcategories = [j \in DOMAIN @ |-> new(@[j])]]
    IN  [heap |-> h \o [k \in 1..Cardinality(R) |-> dup(old(k))], ref |-> new(x)]

\* [deepcopy(subcategory) for subcategory in ids], left to right
RECURSIVE deepcopy_each(_, _, _)
deepcopy_each(h, ids, copies) ==
    IF ids = <<>> THEN [heap |-> h, refs |-> copies]
    ELSE LET c == deepcopy(h, Head(ids))
         IN  deepcopy_each(c.heap, Tail(ids), Append(copies, c.ref))

\* Category.add_subcategories
add_subcategories(h, self, subcategories) ==
    [x \in DOMAIN h |->
        IF x = self THEN [h[x] EXCEPT !.subcategories = subcategories]
        ELSE IF x \in Range(subcategories) THEN [h[x] EXCEPT !.supcategory = self]
        ELSE h[x]]

\* cutoff_threshold scanning self.subcategories in list order instead of
\* descending size
cutoff_threshold_list_order(h, self, configs) ==
    IF configs.proportion_cutoff = NoCutoff
    THEN LET subs == h[self].subcategories
             degenerate == {k \in DOMAIN subs : Degenerate(h[self].grids[h[subs[k]].name])}
         IN  IF degenerate = {} THEN <<0, 1>>
             ELSE LET first == CHOOSE k \in degenerate : \A j \in degenerate : k <= j
                  IN  proportion_in_supcategory(h, subs[first])
    ELSE configs.proportion_cutoff

\* lines 130-139: the threshold of the merge pass
cutoff_threshold(h, self, configs) ==
    IF configs.proportion_cutoff = NoCutoff
    THEN LET desc == subcategories_in_descending_size(h, self)
             degenerate == {k \in DOMAIN desc : Degenerate(h[self].grids[h[desc[k]].name])}
         IN  IF degenerate = {} THEN <<0, 1>>
             ELSE LET first == CHOOSE k \in degenerate : \A j \in degenerate : k <= j
                  IN  proportion_in_supcategory(h, desc[first])
    ELSE configs.proportion_cutoff

\* [x for x in s if keep]: the elements s[i] with keep[i], in order
Filter(s, keep) ==
    LET kept == {i \in DOMAIN s : keep[i]}
    IN  [k \in 1..Cardinality(kept) |->
            s[CHOOSE i \in kept : Cardinality({j \in kept : j <= i}) = k]]

\* the filter of line 140 with >= for >
is_not_cutoff_inclusive(h, c, proportion_cutoff) ==
    ~FracGT(proportion_cutoff, proportion_in_supcategory(h, c))

\* line 140, the filter: subcategory.proportion_in_supcategory > proportion_cutoff
is_not_cutoff(h, c, proportion_cutoff) ==
    FracGT(proportion_in_supcategory(h, c), proportion_cutoff)

\* the filter of line 142 with < for <=
is_cutoff_strict(h, c, proportion_cutoff) ==
    FracGT(proportion_cutoff, proportion_in_supcategory(h, c))

\* line 142, the filter: subcategory.proportion_in_supcategory <= proportion_cutoff
is_cutoff(h, c, proportion_cutoff) ==
    FracLE(proportion_in_supcategory(h, c), proportion_cutoff)

\* the "Other ..." category holding the data of the first cut category only
others_category_first(h, self, cutoff_categories) ==
    Category(OthersName, h[cutoff_categories[1]].size, self, FALSE, TRUE)

\* lines 145-148: the "Other ..." category; its data is the concatenation of
\* the data of the cut categories, so its size is the sum of their rows.
others_category(h, self, cutoff_categories) ==
    Category(OthersName,
             SumSeq([j \in DOMAIN cutoff_categories |-> h[cutoff_categories[j]].size]),
             self, FALSE, TRUE)

\* lines 140-156: the kept siblings are duplicated and sorted, the cut ones
\* merged into an "Other" category, and both are attached to a temporary
\* duplicate of self.
merge_pass(h, self, proportion_cutoff) ==
    LET subs == h[self].subcategories
        copied == deepcopy_each(h,
                      Filter(subs, [i \in DOMAIN subs |->
                                       is_not_cutoff(h, subs[i], proportion_cutoff)]),
                      <<>>)
        h1 == copied.heap
        sorted == SortedDesc(copied.refs,
                      [i \in DOMAIN copied.refs |-> <<h1[copied.refs[i]].size, 1>>])
        cutoff_categories ==
              Filter(subs, [i \in DOMAIN subs |->
                               is_cutoff(h, subs[i], proportion_cutoff)])
        h2 == IF Len(cutoff_categories) > 0
              THEN Append(h1, others_category(h, self, cutoff_categories))
              ELSE h1
        not_cutoff_categories ==
              IF Len(cutoff_categories) > 0 THEN Append(sorted, Len(h2)) ELSE sorted
        h3 == Append(h2, Category(h[self].name, h[self].size, h[self].supcategory,
                                  h[self].is_root, FALSE))
        temp_category == Len(h3)
    IN  [heap |-> add_subcategories(h3, temp_category, not_cutoff_categories),
         not_cutoff_categories |-> not_cutoff_categories,
         cutoff_categories |-> cutoff_categories,
         temp_category |-> temp_category]

Top == stack[Len(stack)]
SetTop(f) == [stack EXCEPT ![Len(stack)] = f]

\* the dictionary the outermost visualize_main_map call returns reaches the
\* visualize call that waits for it (line 98)
Returned(main_map) ==
    IF Len(stack) = 1 /\ call.pending THEN [call EXCEPT !.main_map = main_map]
    ELSE call

\* lines 121-123: a category without subcategories is drawn as a box
BoxVis ==
    /\ stack # <<>>
    /\ Top.pc = "start"
    /\ top_level_color_style(Top.configs).error = ""
    /\ Len(heap[Top.self].subcategories) = 0
    /\ stack' = SubSeq(stack, 1, Len(stack) - 1)
    /\ call' = Returned([keys |-> {"image", "legend"}])
    /\ UNCHANGED <<heap, rendered, cfg>>

\* lines 117-118 raising: styles is empty or styles[0] is no style name; no
\* caller handles the exception, so every call in progress is left.
RaiseStyle ==
    /\ stack # <<>>
    /\ Top.pc = "start"
    /\ top_level_color_style(Top.configs).error # ""
    /\ call' = Raised(top_level_color_style(Top.configs).error)
    /\ stack' = <<>>
    /\ UNCHANGED <<heap, rendered, cfg>>

\* lines 117-127 of a category with subcategories:
\* self.compute_grid(configs.width, configs.height)
FirstLayout ==
    /\ stack # <<>>
    /\ Top.pc = "start"
    /\ top_level_color_style(Top.configs).error = ""
    /\ Len(heap[Top.self].subcategories) > 0
    /\ heap' = [heap EXCEPT ![Top.self].grids =
                   compute_grid(heap, Top.self, @, Top.configs.width,
                                Top.configs.height, <<0, 0>>, 0)]
    /\ stack' = SetTop([Top EXCEPT !.pc = "cutoff",
                           !.color_style = top_level_color_style(Top.configs).style])
    /\ UNCHANGED <<call, rendered, cfg>>

\* lines 130-139
ComputeCutoff ==
    /\ stack # <<>>
    /\ Top.pc = "cutoff"
    /\ stack' = SetTop([Top EXCEPT !.pc = "merge",
                           !.proportion_cutoff =
                               cutoff_threshold(heap, Top.self, Top.configs)])
    /\ UNCHANGED <<heap, call, rendered, cfg>>

\* lines 140-156
MergePass ==
    /\ stack # <<>>
    /\ Top.pc = "merge"
    /\ LET m == merge_pass(heap, Top.self, Top.proportion_cutoff)
       IN  /\ heap' = m.heap
           /\ stack' = SetTop([Top EXCEPT !.pc = "layout",
                                  !.not_cutoff_categories = m.not_cutoff_categories,
                                  !.cutoff_categories = m.cutoff_categories,
                                  !.temp_category = m.temp_category])
    /\ UNCHANGED <<call, rendered, cfg>>

\* lines 161-162: configs.styles.append("uniform") when at most one is left
styles_appended(styles) ==
    IF Len(styles) <= 1 THEN Append(styles, "uniform") ELSE styles

\* lines 157-162: temp_category.compute_grid(configs.width, configs.height),
\* then the append to configs.styles; the configs of the outermost call is
\* the caller's object.
SecondLayout ==
    /\ stack # <<>>
    /\ Top.pc = "layout"
    /\ heap' = [heap EXCEPT ![Top.temp_category].grids =
                   compute_grid(heap, Top.temp_category, @, Top.configs.width,
                                Top.configs.height, <<0, 0>>, 0)]
    /\ stack' = SetTop([Top EXCEPT !.pc = "subs", !.i = 0,
                           !.configs.styles = styles_appended(@)])
    /\ cfg' = IF Len(stack) = 1
              THEN [cfg EXCEPT !.configs.styles = styles_appended(@)]
              ELSE cfg
    /\ UNCHANGED <<call, rendered>>

\* lines 165-185, one iteration: the sub-configuration takes the size of the
\* subcategory's grid entry and the configured cutoff, and the subcategory
\* renders itself with it.
SubRender ==
    /\ stack # <<>>
    /\ Top.pc = "subs"
    /\ Top.i < Len(Top.not_cutoff_categories)
    /\ LET subcategory == Top.not_cutoff_categories[Top.i + 1]
           sub_grid == heap[Top.temp_category].grids[heap[subcategory].name]
           sub_configs == StyledConfig(sub_grid.width, sub_grid.height,
                                       Top.configs.proportion_cutoff,
                                       Tail(Top.configs.styles))
       IN  /\ stack' = Append(SetTop([Top EXCEPT !.i = @ + 1]),
                              Frame(subcategory, sub_configs))
           /\ rendered' = Append(rendered,
                              Rendering(heap, subcategory, sub_configs, Top.self))
    /\ UNCHANGED <<heap, call, cfg>>

\* lines 188-192: the loop is over, the call returns the image and
\* color_legend, which has one key per rendered subcategory (line 169)
Return ==
    /\ stack # <<>>
    /\ Top.pc = "subs"
    /\ Top.i = Len(Top.not_cutoff_categories)
    /\ stack' = SubSeq(stack, 1, Len(stack) - 1)
    /\ call' = Returned([keys |-> {"image", "color_legend"},
                         color_legend |-> [j \in DOMAIN Top.not_cutoff_categories |->
                                             heap[Top.not_cutoff_categories[j]].name]])
    /\ UNCHANGED <<heap, rendered, cfg>>

\* A root with children rows, the first child split once more into grand
\* (generate_subcategories with two grouping keys), or not when grand is empty.
Tree(rows, grand) ==
    LET flat == FlatTree(rows)
        first == RootId + 1
        base == Len(flat)
    IN  IF grand = <<>> THEN flat
        ELSE [flat EXCEPT ![first].subcategories = [k \in DOMAIN grand |-> base + k]]
             \o [k \in DOMAIN grand |-> Category(k, grand[k], first, FALSE, FALSE)]

Splits(n) == {<<>>} \cup {<<a, n - a>> : a \in 1..(n - 1)}

\* configured cutoff fractions
CutoffFractions == {<<0, 1>>, <<1, 4>>, <<1, 3>>, <<1, 2>>, <<1, 1>>}

\* nine categories of weight 1 and one of weight 991
TenRows == {<<991, 1, 1, 1, 1, 1, 1, 1, 1, 1>>, <<1, 1, 1, 991, 1, 1, 1, 1, 1, 1>>}
TenCanvases == {<<1, 1>>, <<100, 100>>, <<300, 200>>, <<1000, 2000>>}

RenderCall(h, configs) ==
    /\ heap = h
    /\ cfg = Passed(configs)
    /\ stack = <<Frame(RootId, configs)>>
    /\ rendered = <<Rendering(h, RootId, configs, None)>>

Init ==
    /\ call = NoCall
    /\ \/ \E rows \in GridRows, width \in 0..MaxCanvas, height \in 0..MaxCanvas :
             \E grand \in Splits(rows[1]) :
                RenderCall(Tree(rows, grand), LayoutConfig(width, height, NoCutoff))
       \/ \E rows \in GridRows, cutoff \in CutoffFractions :
             \E grand \in Splits(rows[1]) :
                RenderCall(Tree(rows, grand), LayoutConfig(MaxCanvas, MaxCanvas, cutoff))
       \/ \E rows \in TenRows, canvas \in TenCanvases :
             RenderCall(FlatTree(rows), LayoutConfig(canvas[1], canvas[2], NoCutoff))

Next ==
    \/ BoxVis
    \/ FirstLayout
    \/ ComputeCutoff
    \/ MergePass
    \/ SecondLayout
    \/ SubRender
    \/ Return

Spec == Init /\ [][Next]_vars

(***************************************************************************)
(* The cutoff/merge pass and the frame of rendering.                       *)
(***************************************************************************)
\* the frames whose threshold is computed, resp. whose merge pass is done
Thresholded == {k \in DOMAIN stack : stack[k].pc \in {"merge", "layout", "subs"}}
Merged == {k \in DOMAIN stack : stack[k].pc \in {"layout", "subs"}}

SizesOf(h, ids) == SumSeq([j \in DOMAIN ids |-> h[ids[j]].size])

\* C3: without a configured cutoff the threshold of the merge pass is the
\* proportion-of-parent of the first sibling, in descending-size order,
\* whose rectangle in the unmerged layout has width 0 or height 0, and
\* exactly 0 when there is none.
C3_AutoThreshold ==
    \A k \in Thresholded :
        LET f == stack[k]
            desc == subcategories_in_descending_size(heap, f.self)
            unmerged == [j \in DOMAIN desc |-> heap[f.self].grids[heap[desc[j]].name]]
        IN  f.configs.proportion_cutoff = NoCutoff =>
               IF \A j \in DOMAIN desc : ~Degenerate(unmerged[j])
               THEN f.proportion_cutoff = <<0, 1>>
               ELSE \E j \in DOMAIN desc :
                       /\ Degenerate(unmerged[j])
                       /\ \A b \in 1..(j - 1) : ~Degenerate(unmerged[b])
                       /\ f.proportion_cutoff =
                              <<heap[desc[j]].size, heap[f.self].size>>

\* an auto-detected threshold taken from a sibling that is neither the
\* largest nor the first of the list, the largest being laid out properly
C3_Witness ==
    \E k \in Thresholded :
        LET f == stack[k]
            subs == heap[f.self].subcategories
            desc == subcategories_in_descending_size(heap, f.self)
        IN  /\ f.configs.proportion_cutoff = NoCutoff
            /\ Len(subs) = 3
            /\ f.proportion_cutoff[1] > 0
            /\ f.proportion_cutoff[1] # heap[desc[1]].size
            /\ f.proportion_cutoff[1] # heap[subs[1]].size

\* C4: after the merge pass every sibling is either kept (proportion above
\* the threshold) or cut (proportion at most the threshold), never both; an
\* "Other" node exists iff some sibling is cut, there is one at most, it is
\* flagged is_others, has no children and has the size of the cut siblings
\* together, so the sizes laid out by the second pass sum to the parent's.
C4_Partition ==
    \A k \in Merged :
        LET f == stack[k]
            subs == Range(heap[f.self].subcategories)
            t == f.proportion_cutoff
            laid == f.not_cutoff_categories
            others == {j \in DOMAIN laid : heap[laid[j]].is_others}
            keptNames == {heap[laid[j]].name : j \in DOMAIN laid \ others}
            cut == Range(f.cutoff_categories)
        IN  /\ \A c \in subs :
                  /\ (heap[c].name \in keptNames) # (c \in cut)
                  /\ (heap[c].name \in keptNames) <=>
                         FracGT(<<heap[c].size, heap[f.self].size>>, t)
                  /\ (c \in cut) <=> FracLE(<<heap[c].size, heap[f.self].size>>, t)
            /\ \A j \in DOMAIN laid \ others :
                  \E c \in subs : /\ heap[c].name = heap[laid[j]].name
                                  /\ heap[c].size = heap[laid[j]].size
            /\ Cardinality(keptNames) = Cardinality(DOMAIN laid \ others)
            /\ (others # {}) <=> (cut # {})
            /\ Cardinality(others) <= 1
            /\ \A j \in others :
                  /\ heap[laid[j]].subcategories = <<>>
                  /\ heap[laid[j]].size = SizesOf(heap, f.cutoff_categories)
            /\ heap[f.temp_category].subcategories = laid
            /\ SizesOf(heap, laid) = heap[f.self].size

\* a merge pass that kept a sibling and cut two
C4_Witness ==
    \E k \in Merged :
        /\ Len(stack[k].cutoff_categories) = 2
        /\ Len(stack[k].not_cutoff_categories) = 2
        /\ heap[stack[k].not_cutoff_categories[2]].is_others

\* C5: with cutoff auto-detection on a canvas of positive width and height,
\* every node handed to sub-rendering has a rectangle of positive width and
\* positive height.
C5_NoDegenerateRendered ==
    (rendered[1].auto /\ rendered[1].width > 0 /\ rendered[1].height > 0) =>
        \A k \in DOMAIN rendered :
            k > 1 => rendered[k].width > 0 /\ rendered[k].height > 0

IsTen ==
    [j \in DOMAIN heap[RootId].subcategories |->
        heap[heap[RootId].subcategories[j]].size] \in TenRows

\* the (name, size, is_others) of the children of node p
Siblings(h, p) ==
    {<<h[c].name, h[c].size, h[c].is_others>> : c \in Range(h[p].subcategories)}

\* the final layout of the root's call is the weight-991 category and an
\* "Other" node of weight 9
TwoNodes(f) ==
    /\ Len(f.not_cutoff_categories) = 2
    /\ \E c \in Range(heap[RootId].subcategories) :
          Siblings(heap, f.temp_category) =
              {<<heap[c].name, 991, FALSE>>, <<OthersName, 9, TRUE>>}

C8_MergeIdempotent ==
    \A k \in Merged :
        LET f == stack[k]
            again == merge_pass(heap, f.temp_category, f.proportion_cutoff)
        IN  /\ Siblings(again.heap, again.temp_category) = Siblings(heap, f.temp_category)
            /\ Len(again.not_cutoff_categories) = Len(f.not_cutoff_categories)

\* a merged sibling set whose "Other" node is cut again by the second run
\* while a kept sibling stays
C8_Witness ==
    \E k \in Merged :
        LET f == stack[k]
            again == merge_pass(heap, f.temp_category, f.proportion_cutoff)
        IN  /\ Len(f.not_cutoff_categories) >= 2
            /\ Len(again.cutoff_categories) = 1
            /\ heap[again.cutoff_categories[1]].is_others

\* the objects of the tree the root's call was made on
OriginalObjects == 1..rendered[1].objects

\* C9: no step of a render call changes the size, the parent reference or
\* the children list of a node of the original tree.
C9_TreeUnchanged ==
    [][\A x \in OriginalObjects :
          /\ heap'[x].size = heap[x].size
          /\ heap'[x].supcategory = heap[x].supcategory
          /\ heap'[x].subcategories = heap[x].subcategories]_vars

\* a finished render call of a two-level tree that merged siblings: the
\* duplicates and the "Other" node exist beside the original tree
C9_Witness ==
    /\ stack = <<>> /\ rendered # <<>>
    /\ Len(heap) > rendered[1].objects
    /\ \E x \in DOMAIN heap : heap[x].is_others
    /\ \E x \in OriginalObjects : heap[x].supcategory # None /\ heap[x].supcategory # RootId

(***************************************************************************)
(* VisConfig: the dataclass and its __post_init__.                         *)
(***************************************************************************)
\* an optional argument: Absent is None, Given(x) a value
Absent == <<>>
Given(x) == <<x>>
ValueOf(opt) == opt[1]

DefaultBaseFontSize == 20
LegendPositions == {"left", "right", "top", "bottom"}

\* sns.color_palette("pastel", n).as_hex(): n colours, the ten pastel
\* colours repeated in a cycle
PastelPalette(n) == [j \in 1..n |-> ((j - 1) % 10) + 1]

\* __post_init__ without the elif of lines 480-481: a palette and an
\* n_categories that disagree are both kept
post_init_unchecked(args) ==
    IF args.palette = Absent /\ args.n_categories = Absent
    THEN [state |-> "error", args |-> args, error |-> "Please provide a value"]
    ELSE IF args.legend_position \notin LegendPositions
    THEN [state |-> "error", args |-> args, error |-> "not a valid position"]
    ELSE [state |-> "constructed", args |-> args,
          palette |-> IF args.palette = Absent
                      THEN PastelPalette(ValueOf(args.n_categories))
                      ELSE ValueOf(args.palette),
          n_categories |-> IF args.n_categories = Absent
                           THEN Len(ValueOf(args.palette))
                           ELSE ValueOf(args.n_categories)]

\* VisConfig.__post_init__ on the fields as the dataclass __init__ set them
\* from the arguments: the object, or the ValueError raised.
post_init(args) ==
    LET palette_checked ==
            IF args.palette = Absent
            THEN IF args.n_categories # Absent
                 THEN [error |-> "", palette |-> PastelPalette(ValueOf(args.n_categories)),
                       n_categories |-> ValueOf(args.n_categories)]
                 ELSE [error |-> "Please provide a value for at least one of palette and n_categories"]
            ELSE IF args.n_categories = Absent
            THEN [error |-> "", palette |-> ValueOf(args.palette),
                  n_categories |-> Len(ValueOf(args.palette))]
            ELSE IF ~(ValueOf(args.n_categories) = Len(ValueOf(args.palette)))
            THEN [error |-> "n_categories should eqaul len(palette)"]
            ELSE [error |-> "", palette |-> ValueOf(args.palette),
                  n_categories |-> ValueOf(args.n_categories)]
    IN  IF palette_checked.error # ""
        THEN [state |-> "error", args |-> args, error |-> palette_checked.error]
        ELSE IF args.legend_position \notin LegendPositions
        THEN [state |-> "error", args |-> args, error |-> "not a valid position"]
        ELSE [state |-> "constructed", args |-> args,
              width |-> args.width, height |-> args.height,
              base_font_size |-> DefaultBaseFontSize,
              palette |-> palette_checked.palette,
              n_categories |-> palette_checked.n_categories,
              styles |-> IF args.styles = Absent THEN DefaultStyles
                         ELSE ValueOf(args.styles),
              proportion_cutoff |-> NoCutoff,
              legend |-> args.legend,
              legend_position |-> args.legend_position,
              legend_rowcol_length |-> args.legend_rowcol_length,
              legend_rowcol_margin |-> 0,
              legend_rowcol_size |-> (args.width + args.height) \div 8,
              legend_color_block_size |->
                  (IF args.width < args.height THEN args.width ELSE args.height) \div 50,
              legend_font_size |-> DefaultBaseFontSize]

Palettes == {Absent} \cup {Given(pal) : pal \in SeqsUpTo({1, 2}, MaxPalette)}
CategoryCounts == {Absent} \cup {Given(n) : n \in 0..MaxPalette}
PositionArgs == LegendPositions \cup {"center", ""}
DefaultLegendRowcolLength == 5

\* the arguments of VisConfig(...) that the model follows; legend and
\* legend_rowcol_length have defaults (lines 462, 468)
VisConfigArgs(width, height, palette, n_categories, styles, legend, legend_position, legend_rowcol_length) ==
    [width |-> width, height |-> height,
     palette |-> palette, n_categories |-> n_categories,
     styles |-> styles, legend |-> legend, legend_position |-> legend_position,
     legend_rowcol_length |-> legend_rowcol_length]
StyleArgs == {Absent, Given(<<>>), Given(<<"gradient">>), Given(<<"palette", "flat">>)}

InitConfig ==
    /\ heap = <<>>
    /\ call = NoCall
    /\ stack = <<>>
    /\ rendered = <<>>
    /\ \E palette \in Palettes, n_categories \in CategoryCounts,
          legend_position \in PositionArgs, styles \in StyleArgs :
          cfg = [state |-> "args",
                 args |-> VisConfigArgs(100 * MaxCanvas, 50 * MaxCanvas, palette,
                                        n_categories, styles, TRUE, legend_position,
                                        DefaultLegendRowcolLength)]

\* VisConfig(...): the generated __init__ followed by __post_init__
NewVisConfig ==
    /\ cfg.state = "args"
    /\ cfg' = post_init(cfg.args)
    /\ UNCHANGED <<heap, call, stack, rendered>>

NextConfig == NewVisConfig

SpecConfig == InitConfig /\ [][NextConfig]_vars

\* C10: constructing a VisConfig fails exactly when palette and n_categories
\* are both absent, or both given with n_categories different from the
\* length of palette, or legend_position is not top, bottom, left or right;
\* otherwise it succeeds and n_categories is the length of palette.
C10_ConstructionErrors ==
    cfg.state \in {"constructed", "error"} =>
        LET a == cfg.args
            bad == \/ a.palette = Absent /\ a.n_categories = Absent
                   \/ /\ a.palette # Absent /\ a.n_categories # Absent
                      /\ ValueOf(a.n_categories) # Len(ValueOf(a.palette))
                   \/ a.legend_position \notin {"top", "bottom", "left", "right"}
        IN  /\ (cfg.state = "error") <=> bad
            /\ cfg.state = "constructed" => cfg.n_categories = Len(cfg.palette)

\* a VisConfig constructed from n_categories alone, its palette generated
C10_Witness ==
    /\ cfg.state = "constructed"
    /\ cfg.args.palette = Absent
    /\ Len(cfg.palette) = MaxPalette

\* C11: a style list with a name other than palette, gradient or uniform at
\* any position is rejected when the VisConfig is constructed.
C11_InvalidStyleRejected ==
    (/\ cfg.state \in {"constructed", "error"}
     /\ cfg.args.styles # Absent
     /\ \E i \in DOMAIN ValueOf(cfg.args.styles) :
           ValueOf(cfg.args.styles)[i] \notin StyleNames)
        => cfg.state = "error"

(***************************************************************************)
(* Rendering with a configured style list.                                 *)
(***************************************************************************)
\* styles arguments: valid lists of length 0..3 and lists with a name that
\* is no style
StyleLists ==
    {<<>>, <<"gradient">>, <<"palette">>, <<"uniform", "gradient">>,
     <<"palette", "uniform", "gradient">>, <<"palette", "flat">>, <<"flat">>}

InitStyle ==
    /\ call = NoCall
    /\ \E rows \in GridRows, styles \in StyleLists :
          \E grand \in Splits(rows[1]) :
             RenderCall(Tree(rows, grand),
                        StyledConfig(MaxCanvas, MaxCanvas, NoCutoff, styles))

NextStyle ==
    \/ RaiseStyle
    \/ BoxVis
    \/ FirstLayout
    \/ ComputeCutoff
    \/ MergePass
    \/ SecondLayout
    \/ SubRender
    \/ Return

SpecStyle == InitStyle /\ [][NextStyle]_vars

\* the styles of the caller's configuration when the outermost call was made
PassedStyles == rendered[1].styles

\* C12: during and after a render call the configuration object passed to
\* it has the style list it had before the call.
C12_ConfigUnchanged ==
    cfg.configs.styles = PassedStyles

\* C14: with a list of valid style names of any length, the call at depth d
\* colours its children with the d-th name when d is less than the length of
\* the list and with uniform otherwise, and no call fails on the list.
C14_StyleByDepth ==
    (\A i \in DOMAIN PassedStyles : PassedStyles[i] \in StyleNames) =>
        /\ "error" \notin DOMAIN call
        /\ \A k \in DOMAIN stack :
              stack[k].pc # "start" =>
                 stack[k].color_style =
                    IF k <= Len(PassedStyles) THEN PassedStyles[k] ELSE "uniform"

(***************************************************************************)
(* Legend and Category.visualize.                                          *)
(***************************************************************************)
\* ceil(a / b) for counts: the float quotient of two small integers is an
\* integer only when b divides a
Ceil(a, b) == (a + b - 1) \div b

Min(a, b) == IF a < b THEN a ELSE b

\* Legend.n_row_cols, with n_categories = len(self.color_dict)
n_row_cols(n_categories, configs) ==
    Ceil(n_categories, configs.legend_rowcol_length)

\* categories_by_rowcol with the slices categories[i:i+length-1]
categories_by_rowcol_short(categories, configs) ==
    LET length == configs.legend_rowcol_length
        starts == {i \in 0..(Len(categories) - 1) : i % length = 0}
    IN  [k \in 1..Cardinality(starts) |->
            SubSeq(categories, (k - 1) * length + 1,
                   IF (k - 1) * length + length - 1 < Len(categories)
                   THEN (k - 1) * length + length - 1 ELSE Len(categories))]

\* Legend.categories_by_rowcol on the keys of color_dict:
\* [categories[i:i+length] for i in range(0, n_categories, length)]
categories_by_rowcol(categories, configs) ==
    LET length == configs.legend_rowcol_length
        starts == {i \in 0..(Len(categories) - 1) : i % length = 0}
    IN  [k \in 1..Cardinality(starts) |->
            SubSeq(categories, (k - 1) * length + 1,
                   Min((k - 1) * length + length, Len(categories)))]

\* VisConfig.is_row_legend
is_row_legend(configs) == configs.legend_position \in {"top", "bottom"}

\* Legend.visualize on a non-empty color_dict: the size of the image that
\* paste_rows / paste_cols returns, and what the strips append to
\* legend_margins. A strip's margin depends on the measured texts; the model
\* keeps the number of categories of the strip in its place.
legend_visualize(categories, configs) ==
    LET strips == categories_by_rowcol(categories, configs)
        n == Len(strips)
        margin == configs.legend_rowcol_margin
    IN  [size |-> IF is_row_legend(configs)
                  THEN <<configs.width, n * configs.legend_rowcol_size + margin * (1 + n)>>
                  ELSE <<n * configs.legend_rowcol_size + margin * n, configs.height>>,
         legend_margins |-> [k \in DOMAIN strips |-> Len(strips[k])]]

\* VisConfig.total_size
total_size(configs, legend_size) ==
    IF is_row_legend(configs)
    THEN <<configs.width, configs.height + legend_size[2]>>
    ELSE <<configs.width + legend_size[1], configs.height>>

\* VisConfig.legend_ul
legend_ul(configs) ==
    CASE configs.legend_position = "top" -> <<0, 0>>
      [] configs.legend_position = "bottom" -> <<0, configs.height>>
      [] configs.legend_position = "left" -> <<0, 0>>
      [] configs.legend_position = "right" -> <<configs.width, 0>>

\* VisConfig.main_map_ul: self.legend_height and self.legend_width are
\* attributes no VisConfig has
main_map_ul(configs) ==
    CASE configs.legend_position = "top" -> [error |-> "AttributeError"]
      [] configs.legend_position = "bottom" -> [error |-> "", ul |-> <<0, 0>>]
      [] configs.legend_position = "left" -> [error |-> "AttributeError"]
      [] configs.legend_position = "right" -> [error |-> "", ul |-> <<0, 0>>]

\* a visualize call waiting for its main map
VisualizeCall ==
    [pending |-> TRUE, pc |-> "main_map", main_map |-> [keys |-> {}],
     legend_size |-> <<0, 0>>]

\* the image a finished visualize call returned: its size and the boxes
\* the main map and the legend were pasted into
Image(size, main, legend) ==
    [pending |-> FALSE, size |-> size, main |-> main, legend |-> legend]

\* Category.visualize, lines 99-105 and 112: the main map has returned;
\* without a legend it is the result, otherwise the legend is drawn.
VisualizeLegend ==
    /\ call.pending /\ call.pc = "main_map" /\ stack = <<>>
    /\ LET configs == cfg.configs
       IN  IF "color_legend" \notin call.main_map.keys
           THEN call' = Raised("KeyError") /\ cfg' = cfg
           ELSE IF ~configs.legend
           THEN /\ call' = Image(<<configs.width, configs.height>>,
                                 Grid(<<0, 0>>, configs.width, configs.height), None)
                /\ cfg' = cfg
           ELSE LET legend == legend_visualize(call.main_map.color_legend, configs)
                IN  /\ call' = [call EXCEPT !.pc = "compose", !.legend_size = legend.size]
                    /\ cfg' = [cfg EXCEPT !.legend_margins = @ \o legend.legend_margins]
    /\ UNCHANGED <<heap, stack, rendered>>

\* Category.visualize, lines 106-111: the larger canvas, the main map and
\* the legend pasted into it
VisualizeCompose ==
    /\ call.pending /\ call.pc = "compose"
    /\ LET configs == cfg.configs
           main_ul == main_map_ul(configs)
       IN  call' = IF main_ul.error # "" THEN Raised(main_ul.error)
                   ELSE Image(total_size(configs, call.legend_size),
                              Grid(main_ul.ul, configs.width, configs.height),
                              Grid(legend_ul(configs), call.legend_size[1],
                                   call.legend_size[2]))
    /\ UNCHANGED <<heap, stack, rendered, cfg>>

\* a category generate_subcategories was never called on
LeafTree(rows) == <<Category(OthersName - 1, rows, None, TRUE, FALSE)>>

\* the legend, legend_position and legend_rowcol_length arguments: every
\* position with strips of 2 and of 5, and no legend
VisualizeCanvas == <<400, 200>>
LegendArgs ==
    ({TRUE} \X LegendPositions \X {2, DefaultLegendRowcolLength})
    \cup {<<FALSE, "bottom", DefaultLegendRowcolLength>>}

InitVisualize ==
    /\ call = VisualizeCall
    /\ \E legend \in LegendArgs :
          LET configs == post_init(VisConfigArgs(VisualizeCanvas[1], VisualizeCanvas[2],
                                       Absent, Given(MaxPalette), Absent, legend[1],
                                       legend[2], legend[3]))
          IN  \/ \E rows \in GridRows : \E grand \in Splits(rows[1]) :
                    RenderCall(Tree(rows, grand), configs)
              \/ RenderCall(LeafTree(MaxRows), configs)

NextVisualize ==
    \/ BoxVis
    \/ FirstLayout
    \/ ComputeCutoff
    \/ MergePass
    \/ SecondLayout
    \/ SubRender
    \/ Return
    \/ VisualizeLegend
    \/ VisualizeCompose

SpecVisualize == InitVisualize /\ [][NextVisualize]_vars

\* C13: with the legend enabled, at each of the four legend positions,
\* visualize returns a canvas that is the main map extended by the legend
\* along one axis, with the main map and the legend in disjoint regions, the
\* legend above, below, left of or right of the map.
C13_LegendPositions ==
    (~call.pending /\ stack = <<>> /\ cfg.configs.legend
       /\ heap[RootId].subcategories # <<>>) =>
        /\ "error" \notin DOMAIN call
        /\ LET configs == cfg.configs
               main == call.main
               legend == call.legend
           IN  /\ main.width = configs.width /\ main.height = configs.height
               /\ call.size = IF is_row_legend(configs)
                              THEN <<main.width, main.height + legend.height>>
                              ELSE <<main.width + legend.width, main.height>>
               /\ Inside(main, Grid(<<0, 0>>, call.size[1], call.size[2]))
               /\ Inside(legend, Grid(<<0, 0>>, call.size[1], call.size[2]))
               /\ ~Overlap(main, legend)
               /\ CASE configs.legend_position = "top" ->
                           legend.ul[2] + legend.height <= main.ul[2]
                    [] configs.legend_position = "bottom" ->
                           main.ul[2] + main.height <= legend.ul[2]
                    [] configs.legend_position = "left" ->
                           legend.ul[1] + legend.width <= main.ul[1]
                    [] configs.legend_position = "right" ->
                           main.ul[1] + main.width <= legend.ul[1]

(***************************************************************************)
(* Legend strips: Legend.categories_by_rowcol and Legend.n_row_cols on a   *)
(* legend of n categories.                                                 *)
(***************************************************************************)
MaxCategories == 12     \* categories of a legend
MaxRowcolLength == 6    \* legend_rowcol_length

\* a Legend with n categories and the legend_rowcol_length of the configs
StripsCall(n, length) ==
    [pending |-> TRUE, categories |-> [j \in 1..n |-> j],
     configs |-> [legend_rowcol_length |-> length]]

InitStrips ==
    /\ heap = <<>>
    /\ stack = <<>>
    /\ rendered = <<>>
    /\ cfg = NoConfig
    /\ \E n \in 1..MaxCategories, length \in 1..MaxRowcolLength :
          call = StripsCall(n, length)

\* legend.categories_by_rowcol(configs) and legend.n_row_cols(configs)
CategoriesByRowcol ==
    /\ call.pending
    /\ call' = [pending |-> FALSE, categories |-> call.categories,
                configs |-> call.configs,
                strips |-> categories_by_rowcol(call.categories, call.configs),
                n_row_cols |-> n_row_cols(Len(call.categories), call.configs)]
    /\ UNCHANGED <<heap, stack, rendered, cfg>>

NextStrips == CategoriesByRowcol

SpecStrips == InitStrips /\ [][NextStrips]_vars

RECURSIVE Flatten(_)
Flatten(ss) == IF ss = <<>> THEN <<>> ELSE Head(ss) \o Flatten(Tail(ss))

\* C16: n >= 1 categories with legend_rowcol_length L >= 1 give ceil(n/L)
\* strips, as many as n_row_cols; every strip but the last holds L
\* categories and the last the remaining n - L*(ceil(n/L)-1); the strips in
\* order hold every category once, in the original order; 12 categories with
\* L = 5 give strips of 5, 5 and 2.
C16_Strips ==
    (~call.pending /\ "strips" \in DOMAIN call) =>
        LET n == Len(call.categories)
            L == call.configs.legend_rowcol_length
            strips == call.strips
            count == CHOOSE m \in 1..n : m * L >= n /\ (m - 1) * L < n
        IN  /\ Len(strips) = count
            /\ call.n_row_cols = count
            /\ \A k \in 1..(count - 1) : Len(strips[k]) = L
            /\ Len(strips[count]) = n - L * (count - 1)
            /\ Flatten(strips) = call.categories
            /\ (n = 12 /\ L = 5) =>
                   [k \in DOMAIN strips |-> Len(strips[k])] = <<5, 5, 2>>

\* the legend of 12 categories cut into strips of 5, 5 and 2
C16_Witness ==
    /\ ~call.pending /\ "strips" \in DOMAIN call
    /\ Len(call.categories) = 12
    /\ call.strips = <<<<1, 2, 3, 4, 5>>, <<6, 7, 8, 9, 10>>, <<11, 12>>>>

(***************************************************************************)
(* StringHelper.largest_fitting_font_size.                                 *)
(***************************************************************************)
MaxFont == 2       \* max_font_size and min_font_size; sizes 1..MaxFont+1 are measured
MaxMeasure == 2    \* measured widths, in pixels

\* the loop of lines 618-621 with the width test reversed
font_search_reversed(font_size, getsize, max_width, max_height, max_font_size) ==
    IF max_width < getsize[font_size][1] /\ getsize[font_size][2] < max_height
    THEN IF max_font_size # Absent /\ font_size > ValueOf(max_font_size)
         THEN font_size
         ELSE IF font_size < Len(getsize) THEN font_size + 1 ELSE font_size
    ELSE font_size

\* the loop of lines 618-621 from font_size on: the value of font_size when
\* the loop is left; getsize[s] is font_func(s).getsize(text)
RECURSIVE font_search(_, _, _, _, _)
font_search(font_size, getsize, max_width, max_height, max_font_size) ==
    IF getsize[font_size][1] < max_width /\ getsize[font_size][2] < max_height
    THEN IF max_font_size # Absent /\ font_size > ValueOf(max_font_size)
         THEN font_size
         ELSE font_search(font_size + 1, getsize, max_width, max_height, max_font_size)
    ELSE font_size

\* largest_fitting_font_size returning font_size for font_size - 1
largest_fitting_font_size_next(getsize, max_width, max_height, max_font_size, min_font_size) ==
    LET font_size == font_search(1, getsize, max_width, max_height, max_font_size)
    IN  IF font_size >= min_font_size THEN font_size ELSE 0

\* StringHelper.largest_fitting_font_size
largest_fitting_font_size(getsize, max_width, max_height, max_font_size, min_font_size) ==
    LET font_size == font_search(1, getsize, max_width, max_height, max_font_size)
    IN  IF (font_size - 1) >= min_font_size THEN font_size - 1 ELSE 0

\* the sizes a text measures at font sizes 1..MaxFont+1: any widths, and
\* heights that stay at one pixel or grow with the font size
FontSizes == 1..(MaxFont + 1)
TextWidths == [FontSizes -> 1..MaxMeasure]
TextHeights == {[s \in FontSizes |-> 1], [s \in FontSizes |-> s]}
Measures == {[s \in FontSizes |-> <<tw[s], th[s]>>] : tw \in TextWidths, th \in TextHeights}

\* boxes, and by how much a second box is larger
Boxes == (1..(MaxMeasure + 1)) \X (1..(MaxMeasure + 1))
Deltas == {0, 1} \X {0, 1}

\* a text that no longer fits box at the largest measured size, so that the
\* search without max_font_size ends
Ends(getsize, box) ==
    ~(getsize[MaxFont + 1][1] < box[1] /\ getsize[MaxFont + 1][2] < box[2])

\* two calls for the same text, font function and size limits, the second
\* with a box at least as large
InitFont ==
    /\ heap = <<>>
    /\ stack = <<>>
    /\ rendered = <<>>
    /\ cfg = NoConfig
    /\ \E getsize \in Measures, box \in Boxes, delta \in Deltas,
          max_font_size \in {Absent} \cup {Given(m) : m \in 0..MaxFont},
          min_font_size \in 0..MaxFont :
          LET larger == <<box[1] + delta[1], box[2] + delta[2]>>
          IN  /\ max_font_size = Absent => Ends(getsize, larger)
              /\ call = [pending |-> TRUE, getsize |-> getsize,
                         boxes |-> <<box, larger>>,
                         max_font_size |-> max_font_size,
                         min_font_size |-> min_font_size, results |-> <<>>]

\* StringHelper.largest_fitting_font_size(text, font_func, max_width,
\* max_height, max_font_size, min_font_size) for the next box
LargestFittingFontSize ==
    /\ call.pending
    /\ "boxes" \in DOMAIN call
    /\ LET box == call.boxes[Len(call.results) + 1]
           result == largest_fitting_font_size(call.getsize, box[1], box[2],
                         call.max_font_size, call.min_font_size)
       IN  call' = [call EXCEPT !.results = Append(@, result),
                                !.pending = Len(call.results) + 1 < Len(call.boxes)]
    /\ UNCHANGED <<heap, stack, rendered, cfg>>

NextFont == LargestFittingFontSize

SpecFont == InitFont /\ [][NextFont]_vars

\* C15: for the same text, font function and size limits, a box at least
\* as wide and as high gets a font size at least as large.
C15_FontMonotonic ==
    ("results" \in DOMAIN call /\ Len(call.results) = 2) =>
        ((call.boxes[1][1] <= call.boxes[2][1] /\ call.boxes[1][2] <= call.boxes[2][2])
            => call.results[1] <= call.results[2])

\* a strictly larger box that gets a strictly larger font size
C15_Witness ==
    /\ "results" \in DOMAIN call /\ Len(call.results) = 2
    /\ call.boxes[1][1] < call.boxes[2][1] /\ call.boxes[1][2] < call.boxes[2][2]
    /\ 0 < call.results[1] /\ call.results[1] < call.results[2]

\* the text fits the box at font size s: both measures are strictly below
Fits(getsize, box, s) == getsize[s][1] < box[1] /\ getsize[s][2] < box[2]

\* C18: the result is the largest s in 1..max_font_size such that the text
\* fits at every size from 1 to s, if that s is at least min_font_size, and
\* 0 otherwise; so it is 0 or lies in min_font_size..max_font_size.
C18_LargestFitting ==
    ("results" \in DOMAIN call /\ call.max_font_size # Absent) =>
        \A k \in DOMAIN call.results :
            LET fitting == {s \in 1..ValueOf(call.max_font_size) :
                               \A t \in 1..s : Fits(call.getsize, call.boxes[k], t)}
                largest == CHOOSE s \in fitting : \A t \in fitting : t <= s
                result == call.results[k]
            IN  /\ result = IF fitting # {} /\ largest >= call.min_font_size
                            THEN largest ELSE 0
                /\ result = 0
                   \/ (call.min_font_size <= result
                       /\ result <= ValueOf(call.max_font_size))

\* a search that stops below max_font_size because the text no longer fits
\* at the next size, beside one for a box the text fits at no size
C18_Witness ==
    /\ "results" \in DOMAIN call /\ Len(call.results) = 2
    /\ call.max_font_size = Given(MaxFont) /\ call.min_font_size >= 1
    /\ call.results[2] > 0 /\ call.results[2] < MaxFont
    /\ ~Fits(call.getsize, call.boxes[2], call.results[2] + 1)
    /\ call.results[1] = 0

(***************************************************************************)
(* StringHelper.split_lines. A text is the list of the widths its words    *)
(* measure at configs.base_font_size; word k of the text is the number k.  *)
(***************************************************************************)
MaxWords == 4        \* words of a label
MaxWordWidth == 3    \* measured width of a word, in pixels
MaxBoxWidth == 6     \* configs.width

\* lines 596-605: the words left in the deque are taken one by one; a word
\* is added to the line first, and the line is closed when its length then
\* exceeds width. next is the number of the first word left.
RECURSIVE pack_words(_, _, _, _, _, _)
pack_words(word_widths, next, width, new_line, new_line_length, lines) ==
    IF next > Len(word_widths)
    THEN IF new_line # <<>> THEN Append(lines, new_line) ELSE lines
    ELSE LET line == Append(new_line, next)
             length == new_line_length + word_widths[next]
         IN  IF length > width
             THEN pack_words(word_widths, next + 1, width, <<>>, 0, Append(lines, line))
             ELSE pack_words(word_widths, next + 1, width, line, length, lines)

\* font_func(10).getsize(line)[0] in the font of the measured words: the
\* widths of the words and of the single spaces between them
line_width(word_widths, line) ==
    SumSeq([j \in DOMAIN line |-> word_widths[line[j]]]) + (Len(line) - 1)

\* StringHelper.split_lines: the lines, and the longest line (the first of
\* the widest, as max returns it)
split_lines(word_widths, width) ==
    LET lines == pack_words(word_widths, 1, width, <<>>, 0, <<>>)
        widest == CHOOSE k \in DOMAIN lines :
                      /\ \A j \in DOMAIN lines :
                            line_width(word_widths, lines[j]) <= line_width(word_widths, lines[k])
                      /\ \A j \in 1..(k - 1) :
                            line_width(word_widths, lines[j]) < line_width(word_widths, lines[k])
    IN  [lines |-> lines, longest_line |-> lines[widest]]

Texts == {t \in SeqsUpTo(1..MaxWordWidth, MaxWords) : Len(t) >= 1}

InitLines ==
    /\ heap = <<>>
    /\ stack = <<>>
    /\ rendered = <<>>
    /\ cfg = NoConfig
    /\ \E word_widths \in Texts, width \in 0..MaxBoxWidth :
          call = [pending |-> TRUE, word_widths |-> word_widths, width |-> width]

\* StringHelper.split_lines(text, configs, font_func)
SplitLines ==
    /\ call.pending
    /\ "word_widths" \in DOMAIN call
    /\ call' = [pending |-> FALSE, word_widths |-> call.word_widths,
                width |-> call.width,
                split |-> split_lines(call.word_widths, call.width)]
    /\ UNCHANGED <<heap, stack, rendered, cfg>>

NextLines == SplitLines

SpecLines == InitLines /\ [][NextLines]_vars

\* every word is in exactly one line, and the lines read in order give the
\* words in their order
WordsInOrder(word_widths, lines) ==
    Flatten(lines) = [k \in DOMAIN word_widths |-> k]

\* C20: split_lines puts every word in exactly one line, in the original
\* order, and no line of two or more words has a cumulative word width
\* greater than the box width.
C20_GreedyLines ==
    "split" \in DOMAIN call =>
        /\ WordsInOrder(call.word_widths, call.split.lines)
        /\ \A k \in DOMAIN call.split.lines :
              LET line == call.split.lines[k]
              IN  Len(line) >= 2 =>
                     SumSeq([j \in DOMAIN line |-> call.word_widths[line[j]]]) <= call.width

(***************************************************************************)
(* Category.box_vis: the label of a leaf.                                  *)
(***************************************************************************)
\* the fields of a VisConfig that box_vis reads
BoxConfig(width, height, frame, base_font_size, min_font_size) ==
    [width |-> width, height |-> height, line_width |-> frame,
     base_font_size |-> base_font_size, min_font_size |-> min_font_size]

\* Category.box_vis, lines 79-89: the lines of the label, the font size the
\* search returns, the sizes font_func is called with (split_lines measures
\* at base_font_size and 10, the search at 1 up to the size it stops at, the
\* drawing at font_size), and the text drawn with its font size
box_vis(word_widths, getsize, configs) ==
    LET split == split_lines(word_widths, configs.width)
        max_width == configs.width - 6 * configs.line_width
        max_height == configs.height - 2 * configs.line_width
        stopped == font_search(1, getsize, max_width, max_height,
                               Given(configs.base_font_size))
        font_size == largest_fitting_font_size(getsize, max_width, max_height,
                         Given(configs.base_font_size), configs.min_font_size)
    IN  [font_size |-> font_size,
         fonts |-> {configs.base_font_size, 10} \cup (1..stopped) \cup {font_size},
         text |-> [lines |-> split.lines, font |-> font_size]]

\* labels of one or two words
Labels == {t \in Texts : Len(t) <= 2}

\* canvases of a leaf: none at all, and those that leave boxes of
\* 1..MaxMeasure+1 pixels inside a frame of line width 1
LeafCanvases ==
    {<<0, 0>>} \cup ({6 + 1, 6 + MaxMeasure + 1} \X {2 + 1, 2 + MaxMeasure + 1})

InitBox ==
    /\ heap = <<>>
    /\ stack = <<>>
    /\ rendered = <<>>
    /\ cfg = NoConfig
    /\ \E label \in Labels, getsize \in Measures, canvas \in LeafCanvases,
          min_font_size \in {1, MaxFont} :
          call = [pending |-> TRUE, label |-> label, getsize |-> getsize,
                  configs |-> BoxConfig(canvas[1], canvas[2], 1, MaxFont, min_font_size)]

\* self.box_vis(img, configs, pil_font). What ImageFont.FreeTypeFont does
\* with size 0 depends on the imaging library: it raises, or it returns a
\* font the text is drawn with.
BoxVisLabel ==
    /\ call.pending
    /\ "label" \in DOMAIN call
    /\ LET box == box_vis(call.label, call.getsize, call.configs)
       IN  \/ call' = [pending |-> FALSE, configs |-> call.configs,
                       font_size |-> box.font_size, fonts |-> box.fonts,
                       drawn |-> <<box.text>>]
           \/ /\ box.font_size = 0
              /\ call' = [pending |-> FALSE, configs |-> call.configs,
                          font_size |-> box.font_size, fonts |-> box.fonts,
                          drawn |-> <<>>, error |-> "font of size 0"]
    /\ UNCHANGED <<heap, stack, rendered, cfg>>

NextBox == BoxVisLabel

SpecBox == InitBox /\ [][NextBox]_vars

\* C19: when the font-size search returns 0, box_vis draws no text, calls
\* font_func with no size 0, and returns without error.
C19_IllegibleLabelSuppressed ==
    ("font_size" \in DOMAIN call /\ call.font_size = 0) =>
        /\ call.drawn = <<>>
        /\ 0 \notin call.fonts
        /\ "error" \notin DOMAIN call

(***************************************************************************)
(* Layout passes: visualize_main_map called again on the same root, with   *)
(* another canvas, and generate_subcategories called between the calls.    *)
(* self.grids is created once (line 45) and never emptied.                 *)
(***************************************************************************)
MaxPasses == 2    \* visualize_main_map calls on the root

\* the groups the rows of the root's data fall into under a grouping key
PassRows == {<<4>>, <<3, 1>>, <<1, 3>>, <<2, 1, 1>>}
PassCanvases == {<<4, 2>>, <<3, 5>>}

\* the number of calls made on the root, and whether the subcategories were
\* generated anew since the last one
PassesCall(passes, regrouped) ==
    [pending |-> FALSE, passes |-> passes, regrouped |-> regrouped]

InitPasses ==
    /\ call = PassesCall(1, FALSE)
    /\ \E rows \in PassRows, canvas \in PassCanvases :
          RenderCall(FlatTree(rows), LayoutConfig(canvas[1], canvas[2], NoCutoff))

\* root.generate_subcategories(group_by) between two calls: new Category
\* objects, named after their groups, replace the root's subcategories
GenerateSubcategories ==
    /\ stack = <<>>
    /\ "passes" \in DOMAIN call
    /\ ~call.regrouped
    /\ call.passes < MaxPasses
    /\ \E rows \in PassRows :
          LET base == Len(heap)
              subcategories == [k \in DOMAIN rows |-> base + k]
              created == heap \o [k \in DOMAIN rows |->
                                     Category(k, rows[k], None, FALSE, FALSE)]
          IN  heap' = add_subcategories(created, RootId, subcategories)
    /\ call' = PassesCall(call.passes, TRUE)
    /\ UNCHANGED <<stack, rendered, cfg>>

\* root.visualize_main_map(configs) once more, on another canvas
VisualizeMainMap ==
    /\ stack = <<>>
    /\ "passes" \in DOMAIN call
    /\ call.passes < MaxPasses
    /\ \E canvas \in PassCanvases :
          LET configs == LayoutConfig(canvas[1], canvas[2], NoCutoff)
          IN  /\ stack' = <<Frame(RootId, configs)>>
              /\ rendered' = Append(rendered, Rendering(heap, RootId, configs, None))
              /\ cfg' = Passed(configs)
    /\ call' = PassesCall(call.passes + 1, FALSE)
    /\ UNCHANGED heap

NextPasses ==
    \/ GenerateSubcategories
    \/ VisualizeMainMap
    \/ BoxVis
    \/ FirstLayout
    \/ ComputeCutoff
    \/ MergePass
    \/ SecondLayout
    \/ SubRender
    \/ Return

SpecPasses == InitPasses /\ [][NextPasses]_vars

\* what compute_grid writes in one pass into an empty dictionary
WrittenInPass(self, configs) ==
    compute_grid(heap, self, EmptyDict, configs.width, configs.height, <<0, 0>>, 0)

\* the entries of node self under the names of categories are those of this pass
FreshEntries(self, categories, configs) ==
    \A c \in Range(categories) :
        /\ heap[c].name \in DOMAIN WrittenInPass(self, configs)
        /\ heap[c].name \in DOMAIN heap[self].grids
        /\ heap[self].grids[heap[c].name] = WrittenInPass(self, configs)[heap[c].name]

\* C17: in every pass, the entries the cutoff loop is about to read from
\* self.grids (line 132) and those the rendering loop is about to read from
\* temp_category.grids (line 167) belong to current children and are the
\* ones compute_grid wrote in this pass, never ones of an earlier pass.
C17_NoStaleRead ==
    stack # <<>> =>
        /\ Top.pc = "cutoff" =>
              FreshEntries(Top.self, heap[Top.self].subcategories, Top.configs)
        /\ Top.pc = "subs" =>
              /\ Range(Top.not_cutoff_categories)
                     = Range(heap[Top.temp_category].subcategories)
              /\ FreshEntries(Top.temp_category, Top.not_cutoff_categories, Top.configs)

\* a second pass on the root, on a canvas of another width, about to read
\* self.grids while an entry of a former child is still in it
C17_Witness ==
    /\ stack # <<>>
    /\ Top.self = RootId
    /\ Top.pc = "cutoff"
    /\ call.passes = 2
    /\ rendered[1].width # Top.configs.width
    /\ \E nm \in DOMAIN heap[RootId].grids : nm \notin ChildNames(heap, RootId)

(***************************************************************************)
(* The recursion of compute_grid (SpecGrid).                               *)
(***************************************************************************)
\* how many times the invocations made so far have assigned an entry to c
TimesAssigned(c) ==
    LET all == Flatten(call.assigned)
    IN  Cardinality({i \in DOMAIN all : all[i] = c})

\* C21: compute_grid makes at most one invocation per sibling and each
\* invocation starts further down the sibling list than the number of
\* invocations before it, so the recursion ends; no sibling is ever assigned
\* a rectangle twice, and when the call has returned every sibling has been
\* assigned exactly once and has its entry in self.grids.
C21_OncePerSibling ==
    LET siblings == heap[RootId].subcategories
    IN  /\ Len(call.assigned) <= Len(siblings)
        /\ call.pending =>
              /\ Len(call.assigned) <= call.current_category_id
              /\ call.current_category_id < Len(siblings)
        /\ \A c \in Range(siblings) : TimesAssigned(c) <= 1
        /\ ~call.pending =>
              \A c \in Range(siblings) :
                 /\ TimesAssigned(c) = 1
                 /\ heap[c].name \in DOMAIN heap[RootId].grids

\* a call that has returned after a recursive call, one invocation having
\* laid out a group of several siblings and another a single one
C21_Witness ==
    /\ ~call.pending
    /\ Len(call.assigned) >= 2
    /\ \E k \in DOMAIN call.assigned : Len(call.assigned[k]) >= 2
    /\ \E k \in DOMAIN call.assigned : Len(call.assigned[k]) = 1

(***************************************************************************)
(* Legend.paste_rowcols: the strips of the legend pasted into one image.   *)
(***************************************************************************)
MaxStrips == 3       \* rows or columns of the legend
MaxStripSize == 2    \* width and height of the image of a strip
MaxMargin == 2       \* configs.legend_rowcol_margin

\* max of a non-empty list of numbers
MaxOf(s) == CHOOSE m \in Range(s) : \A x \in Range(s) : x <= m

\* Legend.paste_cols on the sizes of the column images: the size of the
\* image created and the box each column is pasted at, in order
paste_cols(legend_rowcol_margin, cols) ==
    LET max_height == MaxOf([k \in DOMAIN cols |-> cols[k][2]])
        total_width == SumSeq([k \in DOMAIN cols |-> cols[k][1]])
                           + legend_rowcol_margin * Len(cols)
        ul == [k \in DOMAIN cols |->
                  <<SumSeq([j \in 1..(k - 1) |-> cols[j][1] + legend_rowcol_margin]), 0>>]
    IN  [size |-> <<total_width, max_height>>,
         pasted |-> [k \in DOMAIN cols |-> Grid(ul[k], cols[k][1], cols[k][2])]]

\* Legend.paste_rows on the sizes of the row images
paste_rows(legend_rowcol_margin, rows) ==
    LET total_height == SumSeq([k \in DOMAIN rows |-> rows[k][2]])
                            + legend_rowcol_margin * (1 + Len(rows))
        max_width == MaxOf([k \in DOMAIN rows |-> rows[k][1]])
        ul == [k \in DOMAIN rows |->
                  <<0, legend_rowcol_margin
                       + SumSeq([j \in 1..(k - 1) |->
                                    rows[j][2] + 2 * legend_rowcol_margin])>>]
    IN  [size |-> <<max_width, total_height>>,
         pasted |-> [k \in DOMAIN rows |-> Grid(ul[k], rows[k][1], rows[k][2])]]

\* Legend.paste_rowcols
paste_rowcols(configs, rowcols) ==
    IF is_row_legend(configs)
    THEN paste_rows(configs.legend_rowcol_margin, rowcols)
    ELSE paste_cols(configs.legend_rowcol_margin, rowcols)

StripSizes == (1..MaxStripSize) \X (1..MaxStripSize)

InitPaste ==
    /\ heap = <<>>
    /\ stack = <<>>
    /\ rendered = <<>>
    /\ cfg = NoConfig
    /\ \E rowcols \in SeqsUpTo(StripSizes, MaxStrips),
          legend_rowcol_margin \in 0..MaxMargin,
          legend_position \in {"bottom", "right"} :
          call = [pending |-> TRUE, rowcols |-> rowcols,
                  configs |-> [legend_position |-> legend_position,
                               legend_rowcol_margin |-> legend_rowcol_margin]]

\* self.paste_rowcols(configs, rowcol_imgs); max() of an empty list raises
PasteRowcols ==
    /\ call.pending
    /\ "rowcols" \in DOMAIN call
    /\ call' = IF call.rowcols = <<>> THEN Raised("ValueError")
               ELSE [pending |-> FALSE, configs |-> call.configs,
                     pasted_img |-> paste_rowcols(call.configs, call.rowcols)]
    /\ UNCHANGED <<heap, stack, rendered, cfg>>

NextPaste == PasteRowcols

SpecPaste == InitPaste /\ [][NextPaste]_vars

\* C22: every strip pasted by paste_rows or paste_cols lies within the
\* image that was created and no two strips overlap.
C22_StripsInside ==
    "pasted_img" \in DOMAIN call =>
        LET img == call.pasted_img
            canvas == Grid(<<0, 0>>, img.size[1], img.size[2])
        IN  /\ \A k \in DOMAIN img.pasted : Inside(img.pasted[k], canvas)
            /\ \A j, k \in DOMAIN img.pasted :
                  j # k => ~Overlap(img.pasted[j], img.pasted[k])

====
